---- MODULE Spec2Model ----
(***************************************************************************)
(* Model of the lazyplex execution engine: the driver loop of              *)
(* Application.run / Application.process_action_data                       *)
(* (src/src/lazyplex/core/application.py), the scoped context of          *)
(* src/src/lazyplex/core/context.py, the return value and the finalizers   *)
(* of a run, and the plugin registry of src/src/lazyplex/core/plugin.py.   *)
(*                                                                         *)
(* asyncio is cooperative: one action of the model is the code one task    *)
(* executes between two suspension points.                                 *)
(***************************************************************************)
EXTENDS Integers, Sequences, FiniteSets, TLC

\* ---------------------------------------------------------------- bounds
MaxBatches == 2      \* batches a step generator yields in one run
MaxItems == 3        \* items the producer hands over in one run, all batches together
MaxOps == 2          \* context reads/writes the code of one run performs
CtxBatches == 1      \* batches of a run in the context and application specifications
CtxItems == 2        \* items of a run in the context and application specifications
MaxAppOps == 2       \* calls of return_value / add_complete_tasks / nested runs
MaxRuns == 2         \* run calls made on one application object
MaxLoaders == 2      \* plugins given to one Plugins.apply call, and length of Plugins._plugins
MaxDepth == 2        \* Plugins.apply scopes open at the same time

\* ------------------------------------------------------------ vocabulary
OkItem == 1                        \* an item value the action handler doubles
FailItem == 2                      \* an item value the action handler raises on
Items == {OkItem, FailItem}
Names == {"a"}                     \* names an action can be registered under
UnknownName == "zz"                \* a name that is never registered
NoName == ""                       \* None / "" (application.py:310)
WholeBatch == 0                    \* the batch itself, dispatched as one item

Absent == -1                       \* key not in the dict (KeyError)
context_key == "item"              \* first parameter of the action handler
index_key == "item_index"
Keys == {context_key, index_key, "cfg"}

\* exceptions are negative integers
NoErr == 0
TypeErr == -100                    \* TypeError
StopErr == -101                    \* StopIteration escaping the coroutine
ProducerErr == -102                \* an exception raised by the initializer
ItemErr(index) == 0 - index - 10   \* the exception object the action raises
                                   \* while it processes the item with that index

\* values stored in the context
IndexVal(index) == 20 + index      \* the item index stored under index_key
Tag(ctx) == 40 + ctx               \* a value written by execution context ctx

Shapes == {"single", "coll", "iter", "aiter"}
NoData == [shape |-> "single", items |-> << >>]

\* --------------------------------------------------------------- state
VARIABLES
  return_exceptions,  \* Application.return_exceptions
  protected_items,    \* Application.protected_items
  actions,            \* Application._actions: the registered action names
  default_action,     \* Application._default_action
  producer,           \* the initializer and the generator it returned
  call,               \* the arguments of the run call
  dpc,                \* position of the run coroutine
  action,             \* run's local `action` (NoName is None)
  action_data,        \* run's local `action_data`: the batch to dispatch
  counter,            \* next value of run's itertools.count
  result,             \* run's local `result`
  err,                \* the exception caught by the loop's except clause
  run_err,            \* the exception the run call raised (NoErr: none)
  round,              \* number of dispatch rounds started so far
  pulled,             \* items pulled so far from an asynchronous batch
  tasks,              \* every item dispatched so far, in dispatch order
  outer,              \* the future asyncio.gather returned for this batch
  base,               \* the ApplicationContext dict of the run
  run_branch,         \* _branch_context in the run coroutine's context
  \* history
  initCalled,         \* the initializer function has been invoked
  first_fail,         \* the task of this round whose handler failed first (0: none)
  early_fail,         \* the first task in item order that had failed when gather was called
  presp,              \* the last resume of the producer and its response
  lastOp,             \* the last context read and what it returned, until the next write
  last_write,         \* per key, the last write made while the base held the key
  stored,             \* per key, the value the last write to the base stored
  ctx_ops,            \* context reads/writes the code of the run may still perform
  ret_val,            \* Application.__return_value
  ctx_app,            \* the application ctx[CTX_APPLICATION] refers to
  ctx_live,           \* who set _app_context where run was called: "none", "run", "caller"
  fin_list,           \* ctx[CTX_COMPLETE_TASKS]: the registered finalizers
  returned,           \* whether the run call has returned, and what
  runs,               \* run calls made so far on the application object
  app_ops,            \* application calls the code of the run may still make
  life,               \* history of the finalizers and of the return value
  stacks,             \* Plugins._process_*: per method the Stack, earliest push first
  plugins,            \* Plugins._plugins
  scopes,             \* the Plugins.apply calls whose body is running, innermost last
  plug_call,          \* the last call of a hook stack: who was invoked, in order
  plug_exit,          \* the last Plugins.apply exit and what it found on entry
  regs,               \* history: the Application.action registrations made, in order
  lazy,               \* a Lazy object: its queue and the progress of its call
  merged,             \* the call of a composite action `A >> B`
  parsed,             \* a call of ArgumentsMixin.parse_args
  resolved            \* a call of ApplicationAction._process_action

plugVars == <<stacks, plugins, scopes, plug_call, plug_exit>>
unitVars == <<regs, lazy, merged, parsed, resolved>>
cfgVars == <<return_exceptions, protected_items, actions, default_action, call, plugVars,
             unitVars>>
lifeVars == <<ret_val, ctx_app, ctx_live, fin_list, returned, runs, app_ops, life>>
appVars == <<cfgVars, ctx_ops, lifeVars>>
ctxHist == <<lastOp, last_write, stored>>
ctxVars == <<base, run_branch, ctxHist>>
vars == <<return_exceptions, protected_items, actions, default_action,
          producer, call, dpc, action, action_data, counter, result, err,
          run_err, round, pulled, tasks, outer, base, run_branch,
          initCalled, first_fail, early_fail, presp, lastOp, last_write, stored,
          ctx_ops, ret_val, ctx_app, ctx_live, fin_list, returned, runs, app_ops, life,
          stacks, plugins, scopes, plug_call, plug_exit,
          regs, lazy, merged, parsed, resolved>>

\* ------------------------------------------------------ scoped context
EmptyDict == [k \in Keys |-> Absent]
NoBranch == [active |-> FALSE, d |-> EmptyDict]       \* _branch_context.get(None) is None

\* bool(branch): a dict is truthy when it is not empty
BranchTruthy(b) == b.active /\ \E k \in Keys : b.d[k] # Absent

\* mutant: a key that is new goes to the shared dict
CtxSet_shared(b, bs, k, v) ==
  IF b.active /\ b.d[k] # Absent
  THEN [branch |-> [b EXCEPT !.d[k] = v], base |-> bs]
  ELSE [branch |-> b, base |-> [bs EXCEPT ![k] = v]]

\* ApplicationContext.__setitem__: the pair of dicts after ctx[k] = v
CtxSet(b, bs, k, v) ==
  IF b.active /\ (b.d[k] # Absent \/ bs[k] = Absent)
  THEN [branch |-> [b EXCEPT !.d[k] = v], base |-> bs]
  ELSE [branch |-> b, base |-> [bs EXCEPT ![k] = v]]

\* mutant: the lookup tries the shared dict first
CtxGet_base_first(b, bs, k) ==
  IF bs[k] # Absent THEN bs[k] ELSE b.d[k]

\* ApplicationContext.__getitem__: the value of ctx[k], Absent for KeyError
CtxGet(b, bs, k) ==
  IF BranchTruthy(b) /\ b.d[k] # Absent THEN b.d[k] ELSE bs[k]

\* ApplicationAction.get_item_context: the dict the item's branch is seeded with
ItemContext(item, index) ==
  [k \in Keys |-> IF k = context_key THEN item
                  ELSE IF k = index_key THEN IndexVal(index) ELSE Absent]

\* context.branch, entry: _branch_context.set(ctx or {})
BranchEnter(d) == [active |-> TRUE, d |-> d]

\* mutant: the variable keeps the branch of the block that ended
BranchExit_keep(b, token) == b

\* context.branch, exit: _branch_context.reset(token) restores the value the
\* variable had before the block replaced it with b
BranchExit(b, token) == token

\* ------------------------------------------------------------- records
NoOut == [raised |-> FALSE, val |-> 0]
None == [list |-> FALSE, vals |-> << >>]
NoResp == [how |-> "none", sent |-> None, thrown |-> NoErr, out |-> "none", data |-> NoData]
NoOp == [op |-> "none", ctx |-> 0, key |-> context_key, val |-> Absent, inBranch |-> FALSE]
NoWrite == [by |-> Absent, inBranch |-> FALSE]
NoOuter == [active |-> FALSE, exc |-> NoErr]
Scalar(v) == [list |-> FALSE, vals |-> <<v>>]
NotReturned == [done |-> FALSE, val |-> None]
NoLife == [registered |-> {}, invoked |-> {}, last_set |-> None, setters |-> {}, pending |-> {},
           outside |-> "none", fin_saw |-> "unset",
           nested |-> [did |-> FALSE, fins |-> << >>]]

\* the batches a producer can hand to the driver
Batches ==
  { b \in [shape : Shapes, items : UNION { [1..n -> Items] : n \in 1..MaxItems }] :
      b.shape = "single" => Len(b.items) = 1 }

\* ---------------------------------------------------------- item tasks
\* the action handler: doubles the item, raises on FailItem
BodyOutcome(item, index) ==
  IF item = FailItem THEN [raised |-> TRUE, val |-> ItemErr(index)]
  ELSE [raised |-> FALSE, val |-> 2 * item]

\* mutant: wrapper re-raises whatever return_exceptions says
Wrapper_reraise(re, o) == o

\* process_action_data.wrapper: an exception is returned when
\* return_exceptions is set and re-raised otherwise
Wrapper(re, o) ==
  IF o.raised /\ re THEN [raised |-> FALSE, val |-> o.val] ELSE o

\* mutant: the counter does not advance
NextCounter_stuck(c) == c

\* next(counter) of itertools.count(start=1, step=1)
NextCounter(c) == c + 1

NewTask(b, pos, item, index, inline) ==
  [batch |-> b, shape |-> action_data.shape, pos |-> pos, item |-> item,
   index |-> index, st |-> "created",
   out |-> NoOut, inline |-> inline, branch |-> run_branch, token |-> NoBranch,
   pushed |-> 0, pops |-> 0, fresh |-> {}, overtook |-> FALSE]

\* ApplicationAction.__call__ then process_item up to the first suspension
\* of the handler, for task record r running with branch variable b:
\* with the item key already readable the handler is called as a plain
\* function with the plugins=/index= keywords, which it does not declare
ItemStart(r, b) ==
  IF CtxGet(b, base, context_key) # Absent
  THEN [r EXCEPT !.st = "done",
                 !.out = Wrapper(return_exceptions, [raised |-> TRUE, val |-> TypeErr])]
  ELSE [r EXCEPT !.st = "running", !.token = b, !.pushed = 1,
                 !.branch = BranchEnter(ItemContext(r.item, r.index))]

InFlight(t) == tasks[t].st # "done"
BatchTasks(b) == { t \in 1..Len(tasks) : tasks[t].batch = b }

\* mutant: a later failure replaces the one already reported
Notify_last(f, o) ==
  IF f.active /\ o.raised /\ ~return_exceptions
  THEN [f EXCEPT !.exc = o.val] ELSE f

\* asyncio.gather's _done_callback for a child that completed with outcome o
Notify(f, o) ==
  IF f.active /\ f.exc = NoErr /\ o.raised /\ ~return_exceptions
  THEN [f EXCEPT !.exc = o.val] ELSE f

\* ------------------------------------------------------------ run call
\* ArgumentsMixin.bind_args on the initializer: the action argument binds
\* only when the initializer declares it (or **kwargs)
BindFails == call.how # "none" /\ ~producer.declares_action

\* Application.action_from_args: the selected name and whether it is registered
ActionName == IF call.how = "none" \/ call.action = NoName THEN default_action ELSE call.action
ActionFound == ActionName \in actions

\* Application.run up to the call of the initializer (application.py:237-245,
\* update_application_context 324-326, _run_initializer 312-322)
Run ==
  /\ dpc = "idle"
  /\ IF BindFails \/ (ActionFound /\ ~producer.declares_action)
     THEN /\ dpc' = "cleanup" /\ run_err' = TypeErr
          /\ UNCHANGED <<action, initCalled, producer>>
     ELSE /\ dpc' = "first" /\ initCalled' = TRUE
          /\ action' = IF ActionFound THEN ActionName ELSE NoName
          /\ producer' = [producer EXCEPT !.alive = TRUE]
          /\ UNCHANGED run_err
  /\ ctx_live' = IF ctx_live = "none" THEN "run" ELSE ctx_live
  /\ ctx_app' = "self" /\ fin_list' = << >>
  /\ runs' = runs + 1
  /\ life' = [life EXCEPT !.outside = "none"]
  /\ UNCHANGED <<cfgVars, ctx_ops, ret_val, returned, app_ops,
                 action_data, counter, result, err, round, pulled,
                 tasks, outer, first_fail, early_fail, presp, ctxVars>>

\* mutant: the batch a resume call returns is dropped and the batch at hand
\* is dispatched again
Yield_stale(how, snt, thr, data) ==
  /\ producer.left > 0
  /\ data.shape \in producer.shapes
  /\ Len(data.items) <= producer.items
  /\ producer' = [producer EXCEPT !.left = @ - 1, !.items = @ - Len(data.items),
                                  !.yielded = @ + 1]
  /\ action_data' = IF how = "first" THEN data ELSE action_data
  /\ presp' = [how |-> how, sent |-> snt, thrown |-> thr, out |-> "yield", data |-> data]
  /\ dpc' = "loop"
  /\ UNCHANGED run_err

\* the producer hands over a batch
Yield(how, snt, thr, data) ==
  /\ producer.left > 0
  /\ data.shape \in producer.shapes
  /\ Len(data.items) <= producer.items
  /\ producer' = [producer EXCEPT !.left = @ - 1, !.items = @ - Len(data.items),
                                  !.yielded = @ + 1]
  /\ action_data' = data
  /\ presp' = [how |-> how, sent |-> snt, thrown |-> thr, out |-> "yield", data |-> data]
  /\ dpc' = "loop"
  /\ UNCHANGED run_err

\* the run call ends: e is the exception leaving the loop, NoErr after break
Leave(how, snt, thr, out, e) ==
  /\ producer' = [producer EXCEPT !.alive = FALSE]
  /\ presp' = [how |-> how, sent |-> snt, thrown |-> thr, out |-> out, data |-> NoData]
  /\ run_err' = e
  /\ dpc' = "cleanup"
  /\ UNCHANGED action_data

\* application.py:246-258: the first batch, and the counter
FirstBatch ==
  /\ dpc = "first"
  /\ counter' = 1
  /\ \/ \E data \in Batches : Yield("first", None, NoErr, data)
     \/ producer.kind # "value" /\ Leave("first", None, NoErr, "stop", StopErr)
     \/ Leave("first", None, NoErr, "raise", ProducerErr)
  /\ UNCHANGED <<appVars, action, result, err, round, pulled, tasks, outer,
                 ctxVars, initCalled, first_fail, early_fail>>

\* the value of the counter after j calls of next(counter)
RECURSIVE CountAt(_, _)
CountAt(c, j) == IF j = 0 THEN c ELSE NextCounter(CountAt(c, j - 1))

\* the task of batch b created for the item at position k
TaskAt(b, k) == CHOOSE t \in BatchTasks(b) : tasks[t].pos = k

\* mutant: the results are listed as the children complete, the ones that
\* overtook an earlier item first
GatherResult_completion(b) ==
  LET bt == SelectSeq(tasks, LAMBDA r : r.batch = b)
      sq == SelectSeq(bt, LAMBDA r : r.overtook) \o SelectSeq(bt, LAMBDA r : ~r.overtook)
  IN [k \in 1..Len(sq) |-> sq[k].out.val]

\* asyncio.gather(*tasks, return_exceptions=...): the list of the children's
\* results in the order the children were passed
GatherResult(b) ==
  [k \in 1..Cardinality(BatchTasks(b)) |-> tasks[TaskAt(b, k)].out.val]

\* asyncio.gather called on children of which some are already done: their
\* callbacks run in argument order
RECURSIVE GatherCall(_, _, _)
GatherCall(f, b, k) ==
  IF k > Cardinality(BatchTasks(b)) THEN f
  ELSE GatherCall(IF tasks[TaskAt(b, k)].st = "done"
                  THEN Notify(f, tasks[TaskAt(b, k)].out) ELSE f, b, k + 1)

\* the run coroutine resumes after `await wrapper(data, next(counter))`
\* returned or raised outcome o (application.py:296, 265-270)
AfterInline(o) ==
  IF o.raised
  THEN /\ err' = o.val /\ dpc' = "throw" /\ UNCHANGED result
  ELSE /\ result' = [list |-> FALSE, vals |-> <<o.val>>] /\ dpc' = "send"
       /\ UNCHANGED err

\* one round of the while loop up to the first suspension
\* (application.py:259-265, process_action_data 274-298)
Dispatch ==
  /\ dpc = "loop"
  /\ UNCHANGED <<appVars, producer, action, action_data, run_err, base,
                 ctxHist, initCalled, presp>>
  /\ early_fail' = 0
  /\ IF action = NoName
     THEN \* `if action is not None` is false: nothing is dispatched
          /\ result' = None /\ dpc' = "send"
          /\ UNCHANGED <<counter, err, round, pulled, tasks, outer, run_branch, first_fail>>
     ELSE IF call.how = "kw"
     THEN \* **kwargs of run carries `action` a second time: TypeError
          /\ err' = TypeErr /\ dpc' = "throw"
          /\ UNCHANGED <<counter, result, round, pulled, tasks, outer, run_branch, first_fail>>
     ELSE IF protected_items \/ action_data.shape = "single"
     THEN \* `tasks is None`: the data is one item, awaited in the run coroutine
          LET item == IF action_data.shape = "single" THEN action_data.items[1] ELSE WholeBatch
              s == ItemStart(NewTask(round + 1, 1, item, counter, TRUE), run_branch)
          IN /\ counter' = NextCounter(counter)
             /\ round' = round + 1
             /\ tasks' = Append(tasks, [s EXCEPT !.branch = NoBranch])
             /\ UNCHANGED <<pulled, outer>>
             /\ IF s.st = "done"
                THEN /\ first_fail' = Len(tasks) + 1 /\ AfterInline(s.out)
                     /\ UNCHANGED run_branch
                ELSE /\ run_branch' = s.branch /\ dpc' = "inline"
                     /\ first_fail' = 0
                     /\ UNCHANGED <<result, err>>
     ELSE IF action_data.shape = "aiter"
     THEN \* `async for item in data`: the items are pulled one by one
          /\ round' = round + 1 /\ pulled' = 0 /\ dpc' = "pull"
          /\ first_fail' = 0
          /\ UNCHANGED <<counter, result, err, tasks, outer, run_branch>>
     ELSE \* a task per item, all created before any of them runs, then gather
          LET n == Len(action_data.items) IN
          /\ round' = round + 1
          /\ tasks' = tasks \o [k \in 1..n |->
                        NewTask(round + 1, k, action_data.items[k], CountAt(counter, k - 1), FALSE)]
          /\ counter' = CountAt(counter, n)
          /\ outer' = [active |-> TRUE, exc |-> NoErr]
          /\ dpc' = "wait"
          /\ first_fail' = 0
          /\ UNCHANGED <<result, err, pulled, run_branch>>

\* application.py:288-289: the next item of an asynchronous batch becomes a task
Pull ==
  /\ dpc = "pull"
  /\ pulled < Len(action_data.items)
  /\ tasks' = Append(tasks, NewTask(round, pulled + 1, action_data.items[pulled + 1], counter, FALSE))
  /\ counter' = NextCounter(counter)
  /\ pulled' = pulled + 1
  /\ UNCHANGED <<appVars, producer, dpc, action, action_data, result, err, run_err,
                 round, outer, ctxVars, initCalled, first_fail, early_fail, presp>>

\* the asynchronous batch is exhausted: gather is called (application.py:298)
PullEnd ==
  /\ dpc = "pull"
  /\ pulled = Len(action_data.items)
  /\ outer' = GatherCall([active |-> TRUE, exc |-> NoErr], round, 1)
  /\ dpc' = "wait"
  /\ early_fail' = LET failed == { t \in BatchTasks(round) :
                                     tasks[t].st = "done" /\ tasks[t].out.raised }
                   IN IF failed = {} THEN 0
                      ELSE CHOOSE t \in failed : \A u \in failed : tasks[t].pos <= tasks[u].pos
  /\ UNCHANGED <<appVars, producer, action, action_data, counter, result, err, run_err,
                 round, pulled, tasks, ctxVars, initCalled, first_fail, presp>>

\* Application.run_until_complete: the event loop runs until the run call
\* completes; tasks still pending then are not resumed
LoopRunning == dpc \notin {"returned", "raised"}

\* history: task t completes while an earlier item of its batch has not
Overtakes(t) ==
  \E u \in BatchTasks(tasks[t].batch) : tasks[u].pos < tasks[t].pos /\ tasks[u].st # "done"

\* history: the first task of the current round whose handler raised
FirstFail(t, raised) ==
  IF first_fail = 0 /\ raised /\ tasks[t].batch = round THEN t ELSE first_fail

\* mutant: a failure without return_exceptions cancels the other tasks of
\* the batch that are not done
GatherChildren_cancel(ts, t, o) ==
  IF ~(o.raised /\ ~return_exceptions) THEN ts
  ELSE [u \in DOMAIN ts |->
          IF u # t /\ ts[u].batch = ts[t].batch /\ ts[u].st # "done"
          THEN [ts[u] EXCEPT !.st = "cancelled"] ELSE ts[u]]

\* `asyncio.gather(*tasks, return_exceptions=...)` (application.py:298): the
\* completion of child t with outcome o leaves the other children as they are
GatherChildren(ts, t, o) == ts

\* an item task created by asyncio.create_task runs for the first time;
\* the event loop starts tasks in the order they were created
StartItem(t) ==
  /\ LoopRunning
  /\ t \in 1..Len(tasks)
  /\ tasks[t].st = "created"
  /\ \A u \in 1..(t - 1) : tasks[u].st # "created"
  /\ LET s == ItemStart(tasks[t], tasks[t].branch) IN
     /\ tasks' = LET ts == [tasks EXCEPT ![t] = [s EXCEPT !.overtook = s.st = "done" /\ Overtakes(t)]]
                  IN IF s.st = "done" THEN GatherChildren(ts, t, s.out) ELSE ts
     /\ first_fail' = IF s.st = "done" THEN FirstFail(t, TRUE) ELSE first_fail
     /\ outer' = IF s.st = "done" /\ s.batch = round THEN Notify(outer, s.out) ELSE outer
  /\ UNCHANGED <<appVars, producer, dpc, action, action_data, counter, result, err,
                 run_err, round, pulled, ctxVars, initCalled, early_fail, presp>>

\* the handler of item task t returns or raises: process_item leaves the
\* `with branch(...)` block and wrapper returns (application.py:155-161, 277-283)
FinishItem(t) ==
  /\ LoopRunning
  /\ t \in 1..Len(tasks)
  /\ tasks[t].st = "running"
  /\ LET o == Wrapper(return_exceptions, BodyOutcome(tasks[t].item, tasks[t].index)) IN
     /\ first_fail' = FirstFail(t, BodyOutcome(tasks[t].item, tasks[t].index).raised)
     /\ IF tasks[t].inline
        THEN /\ tasks' = [tasks EXCEPT ![t].st = "done", ![t].out = o, ![t].pops = @ + 1,
                                       ![t].overtook = Overtakes(t)]
             /\ run_branch' = BranchExit(run_branch, tasks[t].token)
             /\ AfterInline(o)
             /\ UNCHANGED outer
        ELSE /\ tasks' = GatherChildren(
                           [tasks EXCEPT ![t].st = "done", ![t].out = o, ![t].pops = @ + 1,
                                         ![t].overtook = Overtakes(t),
                                         ![t].branch = BranchExit(tasks[t].branch, tasks[t].token)],
                           t, o)
             /\ outer' = IF tasks[t].batch = round THEN Notify(outer, o) ELSE outer
             /\ UNCHANGED <<run_branch, dpc, result, err>>
  /\ UNCHANGED <<appVars, producer, action, action_data, counter, run_err, round,
                 pulled, base, ctxHist, initCalled, early_fail, presp>>

\* the run coroutine resumes from `await asyncio.gather(...)`: with the first
\* exception reported, or with the list of results once every child is done
\* mutant: the wait also ends as soon as a return value is stored
GatherReady_value == ret_val # None \/ \A t \in BatchTasks(round) : tasks[t].st = "done"

\* mutant: the wait ends with the first child that completes
GatherReady_any == \E t \in BatchTasks(round) : tasks[t].st = "done"

GatherReady == \A t \in BatchTasks(round) : tasks[t].st = "done"

GatherDone ==
  /\ dpc = "wait"
  /\ IF outer.exc # NoErr
     THEN /\ err' = outer.exc /\ dpc' = "throw" /\ UNCHANGED result
     ELSE /\ GatherReady
          /\ result' = [list |-> TRUE, vals |-> GatherResult(round)]
          /\ dpc' = "send" /\ UNCHANGED err
  /\ outer' = NoOuter
  /\ UNCHANGED <<appVars, producer, action, action_data, counter, run_err, round,
                 pulled, tasks, ctxVars, initCalled, first_fail, early_fail, presp>>

\* application.py:266: the result is fed back, the producer answers
Send ==
  /\ dpc = "send"
  /\ IF producer.kind = "value"
     THEN \* _raise_stop: StopIteration, the loop breaks
          Leave("send", result, NoErr, "stop", NoErr) /\ UNCHANGED err
     ELSE \/ \E data \in Batches : Yield("send", result, NoErr, data) /\ UNCHANGED err
          \/ Leave("send", result, NoErr, "stop", NoErr) /\ UNCHANGED err
          \/ \* the generator raises: caught by `except Exception`
             /\ producer' = [producer EXCEPT !.alive = FALSE]
             /\ presp' = [how |-> "send", sent |-> result, thrown |-> NoErr,
                          out |-> "raise", data |-> NoData]
             /\ err' = ProducerErr /\ dpc' = "throw"
             /\ UNCHANGED <<action_data, run_err>>
  /\ UNCHANGED <<appVars, action, counter, result, round, pulled, tasks, outer,
                 ctxVars, initCalled, first_fail, early_fail>>

\* application.py:269-270: the caught exception goes to the error-resume call
Throw ==
  /\ dpc = "throw"
  /\ IF producer.kind = "value" \/ ~producer.alive
     THEN \* _raise_error, or throw() on a finished generator: err is re-raised
          Leave("throw", None, err, "unhandled", err)
     ELSE \/ \E data \in Batches : Yield("throw", None, err, data)
          \/ Leave("throw", None, err, "unhandled", err)
          \/ \* the generator handles the error and returns: StopIteration
             \* raised inside the except clause leaves the loop as an error
             Leave("throw", None, err, "stop", StopErr)
  /\ UNCHANGED <<appVars, action, counter, result, err, round, pulled, tasks, outer,
                 ctxVars, initCalled, first_fail, early_fail>>

\* the AsyncExitStack of run unwinds and the call returns or raises:
\* mutant: the exit stack leaves its context managers in the order they were
\* entered, so _cleanup's finally clause runs before the context is reset
ContextAtCleanup_entered(live) == live

\* what get_context() yields in _cleanup's finally clause: the exit stack
\* leaves create_context before _cleanup, which was entered first
\* (application.py:237-242), and create_context's exit resets _app_context to
\* what it was before the run (context.py:82-83); a context of the caller
\* was never replaced and stays
ContextAtCleanup(live) == IF live = "run" THEN "none" ELSE live

\* create_context, entered last, resets _app_context first (context.py:82-83);
\* _cleanup's finally clause calls every finalizer of the list and awaits
\* them together; with an empty list nothing is awaited. Then run returns
\* self.__return_value or raises (application.py:224-229, 272)
Cleanup ==
  /\ dpc \in {"cleanup", "finalize"}
  /\ IF dpc = "cleanup" /\ fin_list # << >>
     THEN /\ dpc' = "finalize"
          /\ life' = [life EXCEPT !.invoked = @ \cup { fin_list[i] : i \in 1..Len(fin_list) },
                                 !.fin_saw = ContextAtCleanup(ctx_live)]
          /\ UNCHANGED returned
     ELSE /\ dpc' = IF run_err = NoErr THEN "returned" ELSE "raised"
          /\ returned' = IF run_err = NoErr THEN [done |-> TRUE, val |-> ret_val] ELSE returned
          /\ UNCHANGED life
  /\ ctx_live' = IF ctx_live = "run" THEN "none" ELSE ctx_live
  /\ UNCHANGED <<cfgVars, ctx_ops, ret_val, ctx_app, fin_list, runs, app_ops,
                 producer, action, action_data, counter, result, err, run_err,
                 round, pulled, tasks, outer, ctxVars, initCalled, first_fail, early_fail, presp>>

\* ------------------------------------------------------- specification
Calls == { [how |-> "none", action |-> NoName] }
           \cup [how : {"pos", "kw"}, action : Names \cup {UnknownName}]

\* ----------------------------------------------------------- plugins
methods == {"process_action", "process_item", "process_action_data"}

\* plugin objects; plugin 3 returns without calling its continuation, the
\* others do what Plugin does: return await process(...)
PluginIds == {1, 2, 3}
Continues(p) == p # 3
Resolve == 0                       \* the underlying operation `resolve`

NoCall == [method |-> "", order |-> << >>]
NoExit == [done |-> FALSE, n |-> 0, raised |-> FALSE, err |-> "none",
           stacks0 |-> [m \in methods |-> << >>], plugins0 |-> << >>]

\* StackItem.__call__ of the i-th item of a stack: its function runs and its
\* continuation calls the item it is bound to, or resolve when there is none
RECURSIVE ItemCall(_, _)
ItemCall(stack, i) ==
  IF i = 0 THEN <<Resolve>>
  ELSE <<stack[i]>> \o (IF Continues(stack[i]) THEN ItemCall(stack, i - 1) ELSE << >>)

\* a mutant of Stack.__call__ that starts at the earliest push and never
\* goes on
StackCall_bottom(stack) == IF stack = << >> THEN <<Resolve>> ELSE <<stack[1]>>

\* Stack.__call__: the top item if there is one, resolve otherwise
StackCall(stack) == ItemCall(stack, Len(stack))

Reverse(seq) == [i \in 1..Len(seq) |-> seq[Len(seq) + 1 - i]]

\* the plugin lists a caller may pass to apply: different plugin objects,
\* listed in the order of their numbers
Loaders ==
  { l \in UNION { [1..n -> PluginIds] : n \in 0..MaxLoaders } :
      \A i, j \in 1..Len(l) : i < j => l[i] < l[j] }

\* everything but the plugin registry
runVars == <<return_exceptions, protected_items, actions, default_action, call,
             ctx_ops, lifeVars, producer, dpc, action, action_data, counter, result,
             err, run_err, round, pulled, tasks, outer, ctxVars, initCalled,
             first_fail, early_fail, presp, unitVars>>

\* Plugins.apply up to its yield: the methods of the plugins are pushed in
\* reverse order of the arguments and the plugins appended in that order
ApplyEnter(loaders) ==
  /\ Len(scopes) < MaxDepth
  /\ Len(plugins) + Len(loaders) <= MaxLoaders
  /\ stacks' = [m \in methods |-> stacks[m] \o Reverse(loaders)]
  /\ plugins' = plugins \o Reverse(loaders)
  /\ scopes' = Append(scopes, [loaders |-> loaders, stacks0 |-> stacks, plugins0 |-> plugins])
  /\ plug_call' = NoCall /\ plug_exit' = NoExit
  /\ UNCHANGED runVars

\* the body of the innermost apply ends, normally or by raising: the finally
\* clause pops every method stack once per plugin and then _plugins once
ApplyExit(raised) ==
  /\ scopes # << >>
  /\ LET sc == scopes[Len(scopes)]
         n == Len(sc.loaders)
     IN /\ stacks' = [m \in methods |-> SubSeq(stacks[m], 1, Len(stacks[m]) - n)]
        /\ plugins' = IF plugins = << >> THEN plugins
                      ELSE SubSeq(plugins, 1, Len(plugins) - 1)
        /\ plug_exit' = [done |-> TRUE, n |-> n, raised |-> raised,
                         err |-> IF plugins = << >> THEN "IndexError"
                                 ELSE IF raised THEN "body" ELSE "none",
                         stacks0 |-> sc.stacks0, plugins0 |-> sc.plugins0]
  /\ scopes' = SubSeq(scopes, 1, Len(scopes) - 1)
  /\ plug_call' = NoCall
  /\ UNCHANGED runVars

\* Plugins.process_item / process_action_data / process_action
HookCall(m) ==
  /\ plug_call' = [method |-> m, order |-> StackCall(stacks[m])]
  /\ plug_exit' = NoExit
  /\ UNCHANGED <<stacks, plugins, scopes, runVars>>

\* an object of the library that no code of the behaviour touches
Unused == [pc |-> "unused"]

\* the application object and the run coroutine before the call of run
RunConfigured(ops, batches, items, shapes, dicts, calls) ==
  /\ stacks = [m \in methods |-> << >>] /\ plugins = << >> /\ scopes = << >>
  /\ plug_call = NoCall /\ plug_exit = NoExit
  /\ return_exceptions \in BOOLEAN
  /\ protected_items \in BOOLEAN
  /\ actions \in {{}, Names}
  /\ default_action = IF actions = {} THEN NoName ELSE "a"
  /\ call \in Calls
  /\ \E kind \in {"value", "gen"}, decl \in BOOLEAN :
       producer = [kind |-> kind, declares_action |-> decl, alive |-> FALSE,
                   left |-> IF kind = "value" THEN 1 ELSE batches, items |-> items,
                   shapes |-> shapes, yielded |-> 0,
                   left0 |-> IF kind = "value" THEN 1 ELSE batches, items0 |-> items]
  /\ ctx_ops = ops /\ app_ops = calls
  /\ ret_val = None /\ ctx_app = "none" /\ fin_list = << >> /\ returned = NotReturned
  /\ runs = 0 /\ life = NoLife
  /\ dpc = "idle" /\ action = NoName /\ action_data = NoData /\ counter = 1
  /\ result = None /\ err = NoErr /\ run_err = NoErr /\ round = 0 /\ pulled = 0
  /\ tasks = << >> /\ outer = NoOuter /\ base \in dicts /\ run_branch = NoBranch
  /\ initCalled = FALSE /\ first_fail = 0 /\ early_fail = 0 /\ presp = NoResp /\ lastOp = NoOp
  /\ last_write = [k \in Keys |-> NoWrite] /\ stored = base
  /\ ctx_live = IF base = EmptyDict THEN "none" ELSE "caller"

Configured(ops, batches, items, shapes, dicts, calls) ==
  /\ RunConfigured(ops, batches, items, shapes, dicts, calls)
  /\ regs = << >> /\ lazy = Unused /\ merged = Unused /\ parsed = Unused
  /\ resolved = Unused

\* an application object nobody runs: no action registered, no plugin applied
NotRun ==
  /\ RunConfigured(0, 0, 0, {"single"}, {EmptyDict}, 0)
  /\ ~return_exceptions /\ ~protected_items /\ actions = {} /\ call.how = "none"
  /\ producer.kind = "value" /\ producer.declares_action

Init == Configured(0, MaxBatches, MaxItems, Shapes, {EmptyDict}, 0)

Next ==
  \/ Run
  \/ FirstBatch
  \/ Dispatch
  \/ Pull
  \/ PullEnd
  \/ \E t \in 1..Len(tasks) : StartItem(t)
  \/ \E t \in 1..Len(tasks) : FinishItem(t)
  \/ GatherDone
  \/ Send
  \/ Throw
  \/ Cleanup

Spec == Init /\ [][Next]_vars

\* ------------------------------------------- code that uses the context
\* execution contexts: 0 is the run coroutine, in which the initializer body
\* runs; t > 0 is item task t
InitializerRuns ==
  \/ dpc = "first"
  \/ dpc \in {"send", "throw"} /\ producer.kind = "gen" /\ producer.alive

CanUse(c) ==
  /\ ctx_ops > 0
  /\ IF c = 0 THEN InitializerRuns
     ELSE LoopRunning /\ c \in 1..Len(tasks) /\ tasks[c].st = "running"

\* _branch_context.get(None) in execution context c
BranchOf(c) == IF c = 0 \/ tasks[c].inline THEN run_branch ELSE tasks[c].branch

\* execution context c has used the context once: its branch variable holds
\* nb and the item has written the keys fr while the base lacked them
Used(c, nb, fr) ==
  /\ ctx_ops' = ctx_ops - 1
  /\ IF c = 0
     THEN /\ run_branch' = nb
          /\ UNCHANGED tasks
     ELSE /\ tasks' = [tasks EXCEPT ![c].fresh = @ \cup fr,
                                    ![c].branch = IF tasks[c].inline THEN @ ELSE nb]
          /\ run_branch' = IF tasks[c].inline THEN nb ELSE run_branch
  /\ UNCHANGED <<cfgVars, lifeVars, producer, dpc, action, action_data, counter, result, err, run_err,
                 round, pulled, outer, initCalled, first_fail, early_fail, presp>>

\* get_context()[k] = Tag(c) in execution context c
Write(c, k) ==
  /\ CanUse(c)
  /\ LET b == BranchOf(c)
         r == CtxSet(b, base, k, Tag(c))
         held == b.active /\ b.d[k] # Absent
     IN /\ base' = r.base
        /\ lastOp' = NoOp
        /\ last_write' = IF base[k] # Absent
                          THEN [last_write EXCEPT ![k] = [by |-> c, inBranch |-> held]]
                          ELSE last_write
        /\ stored' = IF r.base[k] # base[k] THEN [stored EXCEPT ![k] = r.base[k]] ELSE stored
        /\ Used(c, r.branch, IF base[k] = Absent THEN {k} ELSE {})

\* get_context()[k] in execution context c
Read(c, k) ==
  /\ CanUse(c)
  /\ LET b == BranchOf(c) IN
     /\ lastOp' = [op |-> "read", ctx |-> c, key |-> k, val |-> CtxGet(b, base, k),
                   inBranch |-> b.active /\ b.d[k] # Absent]
     /\ Used(c, b, {})
  /\ UNCHANGED <<base, last_write, stored>>

\* the dict of the context the run call finds: the one create_context({})
\* makes, or one the caller has established and filled
OuterDicts == {EmptyDict, [k \in Keys |-> IF k = context_key THEN Absent ELSE Tag(0)]}

\* the runs of a registered action in abort mode whose initializer is a
\* generator declaring `action` and yielding single items and collections
\* ------------------------------------- code that uses the application
\* set_value, and a mutant of it that keeps the first value
StoreValue_first(old, v) == IF old = None THEN v ELSE old

\* Application.set_value: self.__return_value = value
StoreValue(old, v) == v

CanCall(c) ==
  /\ app_ops > 0
  /\ IF c = 0 THEN InitializerRuns
     ELSE LoopRunning /\ c \in 1..Len(tasks) /\ tasks[c].st = "running"

\* execution context c has made one application call
Called ==
  /\ app_ops' = app_ops - 1
  /\ UNCHANGED <<cfgVars, ctx_ops, ctx_live, returned, runs, producer, dpc, action, action_data,
                 counter, result, err, run_err, round, pulled, tasks, outer, ctxVars,
                 initCalled, first_fail, early_fail, presp>>

\* return_value(Tag(c)) in execution context c: the value goes to the
\* application the context entry refers to (application.py:32-36, 218-220)
SetValue(c) ==
  /\ CanCall(c)
  /\ ret_val' = IF ctx_app = "self" THEN StoreValue(ret_val, Scalar(Tag(c))) ELSE ret_val
  /\ life' = [life EXCEPT !.last_set = Scalar(Tag(c)), !.setters = @ \cup {c},
                        !.pending = { t \in 1..Len(tasks) : t # c /\ tasks[t].st # "done" }]
  /\ UNCHANGED <<ctx_app, fin_list>>
  /\ Called

\* app.add_complete_tasks(fn) in execution context c (application.py:212-216)
AddFinalizer(c) ==
  /\ CanCall(c)
  /\ LET f == Cardinality(life.registered) + 1 IN
     /\ fin_list' = Append(fin_list, f)
     /\ life' = [life EXCEPT !.registered = @ \cup {f}]
  /\ UNCHANGED <<ret_val, ctx_app>>
  /\ Called

\* execution context c awaits the run call of another application that has
\* no action and registers no finalizer: the call finds the context of this
\* run, puts itself and a new list into it (application.py:240-243,
\* 324-326) and returns without suspending
NestedRun(c) ==
  /\ CanCall(c)
  /\ ctx_app' = "other"
  /\ fin_list' = << >>
  /\ life' = [life EXCEPT !.nested = [did |-> TRUE, fins |-> fin_list]]
  /\ UNCHANGED ret_val
  /\ Called

\* the run call is made again on the same application object, once the
\* earlier call is over and none of its item tasks is pending
Rerun ==
  /\ dpc \in {"returned", "raised"}
  /\ runs < MaxRuns
  /\ \A t \in 1..Len(tasks) : tasks[t].st = "done"
  /\ dpc' = "idle" /\ action' = NoName /\ action_data' = NoData /\ counter' = 1
  /\ result' = None /\ err' = NoErr /\ run_err' = NoErr /\ round' = 0 /\ pulled' = 0
  /\ tasks' = << >> /\ outer' = NoOuter /\ initCalled' = FALSE
  /\ first_fail' = 0 /\ early_fail' = 0 /\ presp' = NoResp
  /\ producer' = [producer EXCEPT !.alive = FALSE, !.left = producer.left0,
                                  !.items = producer.items0, !.yielded = 0]
  /\ run_branch' = NoBranch /\ returned' = NotReturned /\ life' = NoLife
  /\ IF ctx_live = "caller"
     THEN UNCHANGED <<base, ctx_app, fin_list>>
     ELSE base' = EmptyDict /\ ctx_app' = "none" /\ fin_list' = << >>
  /\ UNCHANGED <<cfgVars, ctx_ops, ret_val, ctx_live, runs, app_ops, ctxHist>>

\* app.add_complete_tasks(fn) in the code that calls run, before the call or
\* after it: without a context it raises ApplicationNotStarted; a context of
\* the caller has the list of the last run, or no list before the first run
\* (KeyError)
NotStarted_never(live) == FALSE

\* application.py:213-215: `ctx = get_context()`, `if ctx is None: raise`
NotStarted(live) == live = "none"

OutsideAdd ==
  /\ dpc \in {"idle", "returned", "raised"}
  /\ app_ops > 0
  /\ IF NotStarted(ctx_live)
     THEN life' = [life EXCEPT !.outside = "raised"] /\ UNCHANGED fin_list
     ELSE IF ctx_app = "none"
     THEN life' = [life EXCEPT !.outside = "keyerror"] /\ UNCHANGED fin_list
     ELSE LET f == Cardinality(life.registered) + 1 IN
          /\ fin_list' = Append(fin_list, f)
          /\ life' = [life EXCEPT !.outside = "added", !.registered = @ \cup {f}]
  /\ UNCHANGED <<ret_val, ctx_app>>
  /\ Called

\* the runs of a registered action whose initializer declares `action` and
\* yields single items and collections, called with or without a context
InitApp ==
  /\ Configured(0, CtxBatches, CtxItems, {"single", "coll"}, OuterDicts, MaxAppOps)
  /\ call.how = "none" /\ actions = Names /\ producer.declares_action

\* no asynchronous batch is yielded here either
NextApp ==
  \/ Run
  \/ FirstBatch
  \/ Dispatch
  \/ \E t \in 1..Len(tasks) : StartItem(t)
  \/ \E t \in 1..Len(tasks) : FinishItem(t)
  \/ GatherDone
  \/ Send
  \/ Throw
  \/ Cleanup
  \/ \E c \in 0..Len(tasks) : SetValue(c)
  \/ \E c \in 0..Len(tasks) : AddFinalizer(c)
  \/ OutsideAdd
  \/ Rerun

SpecApp == InitApp /\ [][NextApp]_vars

NextNest ==
  \/ NextApp
  \/ \E c \in 0..Len(tasks) : NestedRun(c)

SpecNest == InitApp /\ [][NextNest]_vars

\* the plugin registry of one application, used outside a run
InitPlug ==
  /\ InitApp /\ ~return_exceptions /\ ~protected_items
  /\ producer.kind = "gen" /\ base = EmptyDict

NextPlug ==
  \/ \E loaders \in Loaders : ApplyEnter(loaders)
  \/ \E raised \in BOOLEAN : ApplyExit(raised)
  \/ \E m \in methods : HookCall(m)

SpecPlug == InitPlug /\ [][NextPlug]_vars

InitCtx ==
  /\ Configured(MaxOps, CtxBatches, CtxItems, {"single", "coll"}, OuterDicts, 0)
  /\ call.how = "none" /\ actions = Names /\ producer.declares_action
  /\ producer.kind = "gen" /\ ~return_exceptions

\* the keys the code of the run uses: the index key every branch is seeded
\* with and a key of its own
OpKeys == {index_key, "cfg"}

\* no asynchronous batch is yielded here: Pull and PullEnd are never enabled
NextCtx ==
  \/ Run
  \/ FirstBatch
  \/ Dispatch
  \/ \E t \in 1..Len(tasks) : StartItem(t)
  \/ \E t \in 1..Len(tasks) : FinishItem(t)
  \/ GatherDone
  \/ Send
  \/ Throw
  \/ Cleanup
  \/ \E c \in 0..Len(tasks), k \in OpKeys : Write(c, k)
  \/ \E c \in 0..Len(tasks), k \in OpKeys : Read(c, k)

SpecCtx == InitCtx /\ [][NextCtx]_vars

\* ================================================================ claims
Started(t) == tasks[t].st # "created"
Done(t) == tasks[t].st = "done"
TaskIds == 1..Len(tasks)
\* what the handler makes of an item: its double, or the exception it raises
Expected(item, index) == IF item = FailItem THEN ItemErr(index) ELSE 2 * item
\* the run coroutine is inside process_action_data for the current round
Dispatching == dpc \in {"pull", "wait", "inline"}

\* C1: the items of an iterator-shaped or asynchronous batch are dispatched
\* one after another: an item is not started before every earlier item of
\* its batch has completed.
C1_SequentialDispatch ==
  \A t, u \in TaskIds :
    ( /\ tasks[t].batch = tasks[u].batch
      /\ tasks[t].shape \in {"iter", "aiter"}
      /\ ~tasks[t].inline
      /\ tasks[t].pos < tasks[u].pos
      /\ Started(u) ) => Done(t)

\* C2 as stated: all in-flight item tasks belong to the same batch, and the
\* producer is not resumed while an item task is still running.
C2_OneBatchInFlight ==
  /\ \A t, u \in TaskIds : (InFlight(t) /\ InFlight(u)) => tasks[t].batch = tasks[u].batch
  /\ (dpc \in {"send", "throw"} /\ producer.kind = "gen" /\ producer.alive)
       => \A t \in TaskIds : ~InFlight(t)

\* C2 amended: an item task is in flight outside the dispatch of its own
\* batch only when return_exceptions is off and an item of that batch failed;
\* the result of a batch is fed back only when no task of it is in flight.
C2_InFlightOnlyAfterAbort ==
  /\ \A t \in TaskIds :
       (InFlight(t) /\ ~(tasks[t].batch = round /\ Dispatching))
         => ( /\ ~return_exceptions
              /\ \E u \in BatchTasks(tasks[t].batch) : Done(u) /\ tasks[u].out.raised )
  /\ dpc = "send" => \A t \in BatchTasks(round) : Done(t)

C2_Witness ==
  /\ return_exceptions /\ round = 2
  /\ Cardinality(BatchTasks(1)) = 2
  /\ \A t \in BatchTasks(1) : Done(t)
  /\ \E t \in BatchTasks(1) : tasks[t].overtook
  /\ \E t \in BatchTasks(2) : tasks[t].st = "running"

\* C3: the list a concurrent dispatch returns has one entry per item of the
\* batch and its k-th entry is the outcome of the k-th item, whatever the
\* completion order.
C3_ResultsInItemOrder ==
  (dpc = "send" /\ result.list) =>
    /\ Len(result.vals) = Len(action_data.items)
    /\ \A k \in 1..Len(result.vals) :
         result.vals[k] = Expected(action_data.items[k], counter - Len(action_data.items) + k - 1)

C3_Witness ==
  /\ dpc = "send" /\ result.list /\ Len(result.vals) = 2
  /\ action_data.items[1] # action_data.items[2]
  /\ \E t \in BatchTasks(round) : tasks[t].overtook

\* C4: a run called with an action name that is not registered raises a
\* configuration error and the initializer is never invoked.
C4_UnknownActionRejected ==
  (call.how # "none" /\ call.action \notin actions /\ dpc # "idle")
    => (~initCalled /\ run_err = TypeErr)

C4_Witness ==
  call.how # "none" /\ call.action \notin actions /\ initCalled /\ dpc = "returned"

\* C5 routing, for ff the failed task whose exception is expected to leave
\* the dispatch: that exception is thrown into the producer; a batch yielded
\* in response is the next one dispatched; an unhandled error fails the run.
FailureRouted(ff) ==
  ~return_exceptions =>
    /\ ff # 0 => dpc # "send"
    /\ (ff # 0 /\ dpc = "throw") => err = tasks[ff].out.val
    /\ (ff # 0 /\ presp.how = "throw" /\ dpc \in {"loop", "cleanup", "raised"})
         => presp.thrown = tasks[ff].out.val
    /\ (presp.how = "throw" /\ presp.out = "yield") =>
         /\ run_err = NoErr
         /\ dpc = "loop" => action_data = presp.data
         /\ (dpc # "loop" /\ call.how # "kw") =>
              \A t \in BatchTasks(round) :
                tasks[t].item = IF tasks[t].inline /\ presp.data.shape # "single"
                                THEN WholeBatch ELSE presp.data.items[tasks[t].pos]
    /\ (presp.how = "throw" /\ presp.out = "unhandled") =>
         (run_err = presp.thrown /\ dpc \in {"cleanup", "raised"})

C6_ExceptionsCollected ==
  return_exceptions =>
    /\ (dpc = "send" /\ action # NoName) =>
         /\ \A t \in BatchTasks(round) : Done(t) /\ ~tasks[t].out.raised
         /\ Len(result.vals) = Cardinality(BatchTasks(round))
         /\ \A t \in BatchTasks(round) : result.vals[tasks[t].pos] = Expected(tasks[t].item, tasks[t].index)
    /\ \A t \in TaskIds : err # ItemErr(tasks[t].index) /\ run_err # ItemErr(tasks[t].index)
    /\ err = TypeErr => call.how = "kw"
    /\ (first_fail # 0 /\ ~Dispatching /\ dpc # "send") =>
         \/ presp.how = "send" /\ presp.sent = result
         \/ presp.how = "throw" /\ presp.thrown = ProducerErr

C6_Witness ==
  /\ return_exceptions /\ dpc = "send" /\ result.list
  /\ \E k \in 1..Len(result.vals) : \E t \in BatchTasks(round) : result.vals[k] = ItemErr(tasks[t].index)
  /\ \E k \in 1..Len(result.vals) : result.vals[k] = 2 * OkItem

\* C7: every dispatched item gets a distinct index, and the indexes increase
\* strictly in dispatch order across all batches of the run.
C7_IndexesIncrease ==
  /\ \A t, u \in TaskIds : t < u => tasks[t].index < tasks[u].index
  /\ \A t \in TaskIds : tasks[t].index = t

C7_Witness ==
  \E t, u \in TaskIds :
    /\ tasks[t].batch = 1 /\ tasks[u].batch = 2
    /\ tasks[t].inline /\ ~tasks[u].inline /\ tasks[u].pos = 2

\* ------------------------------------------------- claims on the context
\* the branch variable a finished item left behind in its execution context;
\* the run coroutine's variable counts while no later item runs in it
InlineRunning == \E u \in TaskIds : tasks[u].inline /\ tasks[u].st = "running"
ItemRead == lastOp.op = "read" /\ lastOp.ctx > 0

\* C8, first half: an item that reads a key never gets the value another
\* item wrote under that key while the base context lacked the key
NewKeysIsolated ==
  ItemRead =>
    \A u \in TaskIds \ {lastOp.ctx} :
      lastOp.key \in tasks[u].fresh => lastOp.val # Tag(u)

\* C8 as stated: new keys are isolated, and when the last write to a key the
\* base context already held was made by another item, an item that reads
\* the key gets the value of that write
C8_BaseWriteVisible ==
  /\ NewKeysIsolated
  /\ ItemRead /\ last_write[lastOp.key].by > 0 /\ last_write[lastOp.key].by # lastOp.ctx
       => lastOp.val = Tag(last_write[lastOp.key].by)

\* C8, amended: new keys are isolated, and the write of another item to a key
\* of the base context is read back when the writer's branch did not hold the
\* key at the write and the reader's branch does not hold it at the read
C8_UnshadowedBaseWriteVisible ==
  /\ NewKeysIsolated
  /\ ItemRead /\ last_write[lastOp.key].by > 0 /\ last_write[lastOp.key].by # lastOp.ctx
       /\ ~last_write[lastOp.key].inBranch /\ ~lastOp.inBranch
       => lastOp.val = Tag(last_write[lastOp.key].by)

\* two items of one batch: one wrote a key of the base context, the other
\* read the written value
C8_Witness ==
  /\ ItemRead /\ ~lastOp.inBranch
  /\ \E u \in TaskIds \ {lastOp.ctx} :
       /\ last_write[lastOp.key] = [by |-> u, inBranch |-> FALSE]
       /\ tasks[u].batch = tasks[lastOp.ctx].batch
       /\ lastOp.val = Tag(u)

\* C9: with a branch active a write of k lands in the branch when the branch
\* holds k or neither dict holds k, and in the base when only the base holds
\* k; a read returns the branch's value when the branch holds k and the
\* base's otherwise; without a branch reads and writes use the base
C9_WriteReadRule ==
  [][\A c \in 0..Len(tasks), k \in OpKeys :
       LET b == BranchOf(c)
           inBranch == b.active /\ b.d[k] # Absent
           inBase == base[k] # Absent
       IN /\ Write(c, k) =>
               IF b.active /\ (inBranch \/ ~inBase)
               THEN BranchOf(c)'.d[k] = Tag(c) /\ base' = base
               ELSE base'[k] = Tag(c) /\ BranchOf(c)' = b
          /\ Read(c, k) =>
               /\ lastOp'.val = IF inBranch THEN b.d[k] ELSE base[k]
               /\ base' = base /\ BranchOf(c)' = b]_vars

\* an item wrote a key that only the base held and the value is in the base
C9_Witness ==
  \E t \in TaskIds, k \in OpKeys :
    /\ tasks[t].st = "running" /\ ~tasks[t].inline
    /\ last_write[k] = [by |-> t, inBranch |-> FALSE]
    /\ base[k] = Tag(t) /\ tasks[t].branch.d[k] = Absent

\* C10: the branch of an item is entered once and left once, when the
\* handler returns or raises; afterwards the item's execution context has
\* the branch variable it had before, every read in it returns what the base
\* holds, and the base holds for every key the value last written to it
C10_BranchRemovedOnce ==
  /\ stored = base
  /\ \A t \in TaskIds :
       /\ tasks[t].st = "created" => tasks[t].pushed = 0 /\ tasks[t].pops = 0
       /\ tasks[t].st = "running" =>
            tasks[t].pushed = 1 /\ tasks[t].pops = 0 /\ BranchOf(t).active
       /\ Done(t) =>
            /\ tasks[t].pops = tasks[t].pushed
            /\ ~tasks[t].inline \/ ~InlineRunning =>
                 /\ BranchOf(t) = tasks[t].token
                 /\ \A k \in Keys : CtxGet(BranchOf(t), base, k) = base[k]

\* an item whose handler raised had written a key to its branch only: the
\* branch is gone and the key cannot be read
C10_Witness ==
  \E t \in TaskIds, k \in OpKeys :
    /\ Done(t) /\ tasks[t].out.raised /\ tasks[t].pops = 1
    /\ k \in tasks[t].fresh /\ base[k] = Absent
    /\ CtxGet(BranchOf(t), base, k) = Absent

\* C11: when a run that was started while another run's context was active
\* has ended, the application entry of the context refers to the outer
\* application again and the outer list of finalizers still holds the
\* finalizers registered before the nested run
C11_OuterContextRestored ==
  life.nested.did =>
    /\ ctx_app = "self"
    /\ \A i \in 1..Len(life.nested.fins) :
         \E j \in 1..Len(fin_list) : fin_list[j] = life.nested.fins[i]

\* C12: while the body of Plugins.apply runs, every plugin given to it is on
\* every hook stack; once the body has ended, normally or by raising, every
\* hook stack and the list of active plugins are what they were before
C12_ApplyRestores ==
  /\ scopes # << >> =>
       LET sc == scopes[Len(scopes)] IN
         \A m \in methods, i \in 1..Len(sc.loaders) :
           \E j \in 1..Len(stacks[m]) : stacks[m][j] = sc.loaders[i]
  /\ plug_exit.done =>
       /\ stacks = plug_exit.stacks0
       /\ plugins = plug_exit.plugins0

\* C13: a call of a hook stack invokes the plugin pushed last; the
\* continuation of each plugin invokes the plugin pushed immediately before
\* it and that of the earliest plugin the underlying operation; an empty
\* stack invokes the operation directly
C13_LastPushedFirst ==
  plug_call.method # "" =>
    LET st == stacks[plug_call.method]
        o == plug_call.order
    IN /\ o[1] = IF st = << >> THEN Resolve ELSE st[Len(st)]
       /\ \A i \in 1..Len(o) :
            o[i] # Resolve /\ Continues(o[i]) =>
              /\ i < Len(o)
              /\ o[i + 1] = IF Len(st) = i THEN Resolve ELSE st[Len(st) - i]

\* two plugins pushed by two nested apply calls were invoked, the inner one
\* first, and then the operation
C13_Witness ==
  /\ Len(scopes) = 2
  /\ plug_call.method = "process_item"
  /\ Len(stacks["process_item"]) = 2
  /\ plug_call.order = <<stacks["process_item"][2], stacks["process_item"][1], Resolve>>

\* C14: every finalizer registered with add_complete_tasks during a run has
\* been invoked when the run has ended, whether it returned or raised
C14_FinalizersInvoked ==
  dpc \in {"returned", "raised"} => life.registered \subseteq life.invoked

\* C15: return_value may be called any number of times from any item; the
\* value of the most recent call is the one in effect from then on and the
\* one the run returns
C15_LastValueReturned ==
  /\ life.last_set # None => ret_val = life.last_set
  /\ (returned.done /\ life.last_set # None) => returned.val = life.last_set

\* two items called return_value, the first item last, and the run returned
\* the first item's value
C15_Witness ==
  /\ returned.done
  /\ life.setters = {1, 2}
  /\ life.last_set = Scalar(Tag(1))
  /\ returned.val = Scalar(Tag(1))

\* C16: a run during which the return value is never set returns None,
\* whatever happened in earlier runs of the same application object
C16_UnsetRunReturnsNone ==
  (returned.done /\ life.setters = {}) => returned.val = None

\* C17: with a single-shot producer that returned a collection and a
\* registered action, the run yields the list of the per-item results in
\* item order
C17_RunYieldsResults ==
  ( /\ returned.done
    /\ producer.kind = "value" /\ action # NoName
    /\ action_data.shape = "coll" /\ ~protected_items
    /\ \A k \in 1..Len(action_data.items) : action_data.items[k] = OkItem )
  => returned.val = [list |-> TRUE,
                     vals |-> [k \in 1..Len(action_data.items) |->
                                 Expected(action_data.items[k], k)]]

\* C18: storing the return value while an item is processed neither stops,
\* skips nor cancels another item: when the run returns, every item the
\* producer yielded has been dispatched and has completed with its result,
\* those that were pending when the value was stored included, and the run
\* yields the value stored
C18_OtherItemsUnaffected ==
  ( /\ returned.done /\ life.setters # {}
    /\ ~protected_items
    /\ \A t \in TaskIds : tasks[t].item # FailItem )
  => /\ Len(tasks) = producer.items0 - producer.items
     /\ \A t \in TaskIds :
          Done(t) /\ tasks[t].out = [raised |-> FALSE, val |-> Expected(tasks[t].item, tasks[t].index)]
     /\ returned.val = life.last_set

\* the first item stored the value while the second was not yet complete;
\* the second completed and the run returned the first item's value
C18_Witness ==
  /\ returned.done /\ life.setters = {1} /\ 2 \in life.pending
  /\ Len(tasks) = 2 /\ Done(2) /\ ~tasks[2].out.raised
  /\ returned.val = Scalar(Tag(1))

\* C19: with a step generator, the aggregated result of each dispatched
\* batch is what the resume-with-value call carries, the batch that call
\* returns is the next one dispatched, and when the run has ended the number
\* of dispatch rounds is the number of batches the generator yielded
C19_ResumeCarriesResult ==
  (producer.kind = "gen" /\ action # NoName /\ call.how # "kw") =>
    LET bt == BatchTasks(round) IN
    /\ (presp.how = "send" /\ dpc \in {"loop", "cleanup", "finalize", "returned", "raised"}) =>
         /\ \A t \in bt : Done(t)
         /\ presp.sent =
              IF \E t \in bt : tasks[t].inline
              THEN [list |-> FALSE, vals |-> <<tasks[TaskAt(round, 1)].out.val>>]
              ELSE [list |-> TRUE,
                    vals |-> [k \in 1..Cardinality(bt) |-> tasks[TaskAt(round, k)].out.val]]
    /\ (presp.how = "send" /\ presp.out = "yield") =>
         /\ dpc = "loop" => action_data = presp.data
         /\ (Dispatching \/ dpc \in {"send", "throw"}) =>
              \A t \in bt :
                tasks[t].item = IF protected_items /\ presp.data.shape # "single"
                                THEN WholeBatch ELSE presp.data.items[tasks[t].pos]
    /\ dpc \in {"returned", "raised"} => round = producer.yielded

\* a generator yielded two batches, the second in response to the result of
\* the first, received the result of the second and stopped: two rounds
C19_Witness ==
  /\ producer.kind = "gen" /\ action # NoName /\ call.how # "kw"
  /\ dpc = "returned" /\ round = 2 /\ producer.yielded = 2
  /\ presp.how = "send" /\ presp.out = "stop" /\ presp.sent.list
  /\ Cardinality(BatchTasks(2)) = 2

\* C20: when the generator answers a resume call, with a value or with an
\* error, by stopping, the loop ends and the run completes successfully
\* and returns the stored return value
C20_StopEndsRunSuccessfully ==
  ( /\ presp.how \in {"send", "throw"} /\ presp.out = "stop"
    /\ dpc \in {"returned", "raised"} )
  => /\ run_err = NoErr
     /\ returned = [done |-> TRUE, val |-> ret_val]

\* C21: add_complete_tasks called while no run context is active (before any
\* run, or after the run that created the context has ended) raises
\* ApplicationNotStarted and registers nothing
C21_NotStartedRaises ==
  [][(OutsideAdd /\ ctx_live = "none")
       => /\ life'.outside = "raised"
          /\ fin_list' = fin_list
          /\ life'.registered = life.registered]_vars

\* a run has ended, its context is gone and the call raised
C21_Witness ==
  /\ dpc \in {"returned", "raised"} /\ runs > 0
  /\ ctx_live = "none" /\ life.outside = "raised"

\* ------------------------------------------------ registration of actions
MaxRegs == 3
RegNames == {"a", "b", "c"}

\* mutant: every registration becomes the default action
NewDefault_latest(name, default, current) == name

\* application.py:336-337: `if default or self._default_action is None:
\* self._default_action = acion_name`
NewDefault(name, default, current) ==
  IF default \/ current = NoName THEN name ELSE current

\* Application.action(name, default=default)(fn) (application.py:330-338)
Register(name, default) ==
  /\ Len(regs) < MaxRegs
  /\ actions' = actions \cup {name}
  /\ default_action' = NewDefault(name, default, default_action)
  /\ regs' = Append(regs, <<name, default>>)
  /\ UNCHANGED <<return_exceptions, protected_items, call, plugVars, lazy, merged,
                 parsed, resolved, ctx_ops, lifeVars, producer, dpc, action,
                 action_data, counter, result, err, run_err, round, pulled, tasks,
                 outer, ctxVars, initCalled, first_fail, early_fail, presp>>

\* a new application object: `_actions = {}`, `_default_action = None`
\* (application.py:183, 198)
InitReg ==
  /\ NotRun /\ default_action = NoName
  /\ regs = << >> /\ lazy = Unused /\ merged = Unused /\ parsed = Unused
  /\ resolved = Unused

NextReg == \E name \in RegNames, default \in BOOLEAN : Register(name, default)

SpecReg == InitReg /\ [][NextReg]_vars

Flagged == { i \in 1..Len(regs) : regs[i][2] }
LastOf(S) == CHOOSE i \in S : \A j \in S : j <= i

\* C22: after any sequence of registrations the default action is the most
\* recent registration made with default=True if there is one, else the first
\* registered action; a later registration without the flag never changes it
C22_DefaultAction ==
  /\ [](regs # << >> =>
          default_action = IF Flagged # {} THEN regs[LastOf(Flagged)][1] ELSE regs[1][1])
  /\ [][\A name \in RegNames :
          (Register(name, FALSE) /\ regs # << >>) => default_action' = default_action]_vars

\* a flagged registration of a second name, then an unflagged one of a third
C22_Witness ==
  /\ Len(regs) = 3 /\ ~regs[1][2] /\ regs[2][2] /\ ~regs[3][2]
  /\ regs[1][1] # regs[2][1] /\ regs[3][1] \notin {regs[1][1], regs[2][1]}
  /\ default_action = regs[2][1]

\* ------------------------------------------------------- deferred calls
MaxSteps == 2                      \* entries of Lazy._call_queue
MaxArgs == 2                       \* deferred arguments of one kind in one entry
Groups == {"pos", "kw"}            \* the positional and the keyword arguments
Self == 0                          \* the Lazy object; the result of step s is s
NoValue == -1

\* one entry of _call_queue: whether fn is a name, and how many of its
\* positional and keyword arguments are Lazy objects
QueueEntry(named, npos, nkw) == [named |-> named, pos |-> npos, kw |-> nkw]

NoSteps == [s \in 1..MaxSteps |->
             [args |-> [g \in Groups |-> [n \in 1..MaxArgs |-> "none"]],
              target |-> "none", on |-> NoValue]]

LazyVars == <<return_exceptions, protected_items, actions, default_action, call,
              plugVars, regs, merged, parsed, resolved, ctx_ops, lifeVars, producer,
              dpc, action, action_data, counter, result, err, run_err, round, pulled,
              tasks, outer, ctxVars, initCalled, first_fail, early_fail, presp>>

\* Lazy(fn, *args, **kwargs) (actions.py:17-21): the queue holds the call
NewLazy(npos, nkw) ==
  [queue |-> <<QueueEntry(FALSE, npos, nkw)>>, pc |-> "built", i |-> 0,
   value |-> Self, steps |-> NoSteps]

\* an operator applied to the Lazy object: _lazy_special_wrapper appends
\* [name, args, kwargs] and returns the object (actions.py:133-139)
LazyWrapper(npos, nkw) ==
  /\ lazy.pc = "built" /\ Len(lazy.queue) < MaxSteps
  /\ lazy' = [lazy EXCEPT !.queue = Append(@, QueueEntry(TRUE, npos, nkw))]
  /\ UNCHANGED LazyVars

\* `await lazy()`: Lazy.__call__ starts with `value = self` and the first entry
LazyCall ==
  /\ lazy.pc = "built"
  /\ lazy' = [lazy EXCEPT !.pc = "pos", !.i = 1, !.value = Self]
  /\ UNCHANGED LazyVars

\* mutant: gather is given the first deferred argument only
ToArgs_first(n) == IF n = 0 THEN {} ELSE {1}

\* to_args: every Lazy argument of the group becomes a task of one gather
\* (actions.py:24-28)
ToArgs(n) == 1..n

\* `new_args = (await to_args(args)) if args else []` (actions.py:32) and
\* `kw_values = await to_args(kw_values)` (actions.py:34-36): the call of gather
GatherArgs(g) ==
  /\ lazy.pc = g
  /\ LET n == lazy.queue[lazy.i][g] IN
       IF n = 0
       THEN lazy' = [lazy EXCEPT !.pc = IF g = "pos" THEN "kw" ELSE "target"]
       ELSE lazy' = [lazy EXCEPT
                       !.pc = IF g = "pos" THEN "await_pos" ELSE "await_kw",
                       !.steps[lazy.i].args[g] =
                          [a \in 1..MaxArgs |-> IF a \in ToArgs(n) THEN "pending" ELSE @[a]]]
  /\ UNCHANGED LazyVars

\* the task of a deferred argument starts to run
ArgStart(s, g, a) ==
  /\ lazy.pc # "unused"
  /\ lazy.steps[s].args[g][a] = "pending"
  /\ lazy' = [lazy EXCEPT !.steps[s].args[g][a] = "running"]
  /\ UNCHANGED LazyVars

\* the task of a deferred argument ends; the first failure ends the gather
\* the call awaits, the other tasks keep running
ArgFinish(s, g, a, ok) ==
  /\ lazy.pc # "unused"
  /\ lazy.steps[s].args[g][a] = "running"
  /\ lazy' = [lazy EXCEPT !.steps[s].args[g][a] = IF ok THEN "done" ELSE "failed",
                          !.pc = IF ~ok /\ s = lazy.i /\ @ \in {"await_pos", "await_kw"}
                                 THEN "raised" ELSE @]
  /\ UNCHANGED LazyVars

\* the gather of a group returns once every one of its tasks has a result
ToArgsDone ==
  /\ lazy.pc \in {"await_pos", "await_kw"}
  /\ LET g == IF lazy.pc = "await_pos" THEN "pos" ELSE "kw" IN
       /\ \A a \in 1..lazy.queue[lazy.i][g] : lazy.steps[lazy.i].args[g][a] = "done"
       /\ lazy' = [lazy EXCEPT !.pc = IF g = "pos" THEN "kw" ELSE "target"]
  /\ UNCHANGED LazyVars

\* mutant: a name is looked up on the Lazy object
LookupOn_self(named, value) == IF named THEN Self ELSE NoValue

\* `if isinstance(fn, str): fn = getattr(value, fn)` (actions.py:38-39)
LookupOn(named, value) == IF named THEN value ELSE NoValue

\* `fn(*new_args, **new_kwargs)` (actions.py:41)
Invoke ==
  /\ lazy.pc = "target"
  /\ lazy' = [lazy EXCEPT !.pc = "running",
                          !.steps[lazy.i].target = "called",
                          !.steps[lazy.i].on = LookupOn(lazy.queue[lazy.i].named, lazy.value)]
  /\ UNCHANGED LazyVars

\* `value = await as_future(...)` (actions.py:41): the target returns or
\* raises; after the last entry the call returns the value (actions.py:42)
TargetDone(ok) ==
  /\ lazy.pc = "running"
  /\ lazy' = IF ~ok
             THEN [lazy EXCEPT !.pc = "raised", !.steps[lazy.i].target = "raised"]
             ELSE [lazy EXCEPT !.steps[lazy.i].target = "returned",
                               !.value = lazy.i,
                               !.pc = IF lazy.i = Len(lazy.queue) THEN "done" ELSE "pos",
                               !.i = IF lazy.i = Len(lazy.queue) THEN @ ELSE @ + 1]
  /\ UNCHANGED LazyVars

InitLazy ==
  /\ NotRun /\ default_action = NoName
  /\ regs = << >> /\ merged = Unused /\ parsed = Unused /\ resolved = Unused
  /\ \E npos \in 0..MaxArgs, nkw \in 0..MaxArgs : lazy = NewLazy(npos, nkw)

NextLazy ==
  \/ \E npos \in 0..MaxArgs, nkw \in 0..MaxArgs : LazyWrapper(npos, nkw)
  \/ LazyCall
  \/ \E g \in Groups : GatherArgs(g)
  \/ \E s \in 1..MaxSteps, g \in Groups, a \in 1..MaxArgs : ArgStart(s, g, a)
  \/ \E s \in 1..MaxSteps, g \in Groups, a \in 1..MaxArgs, ok \in BOOLEAN :
       ArgFinish(s, g, a, ok)
  \/ ToArgsDone
  \/ Invoke
  \/ \E ok \in BOOLEAN : TargetDone(ok)

SpecLazy == InitLazy /\ [][NextLazy]_vars

Untouched(s) ==
  /\ lazy.steps[s].target = "none"
  /\ \A g \in Groups, a \in 1..MaxArgs : lazy.steps[s].args[g][a] = "none"

\* C23: building a Lazy object and applying operators to it executes nothing;
\* once it is called the entries run in queue order, the target of an entry is
\* invoked only after the target of the entry before it has returned, and a
\* target recorded by name is looked up on the result of the entry before it
C23_QueueOrder ==
  /\ lazy.pc = "built" => \A s \in 1..MaxSteps : Untouched(s)
  /\ \A s \in 1..MaxSteps :
       /\ s > Len(lazy.queue) => Untouched(s)
       /\ (s > 1 /\ ~Untouched(s)) => lazy.steps[s - 1].target = "returned"
       /\ (lazy.steps[s].target # "none" /\ lazy.queue[s].named)
            => lazy.steps[s].on = s - 1

\* the second entry, recorded by name, has returned
C23_Witness ==
  /\ lazy.pc = "done" /\ Len(lazy.queue) = 2
  /\ lazy.steps[2].target = "returned" /\ lazy.steps[2].on = 1

Scheduled(s, g) == { a \in 1..lazy.queue[s][g] : lazy.steps[s].args[g][a] # "none" }
AllDone(s, g) == \A a \in 1..lazy.queue[s][g] : lazy.steps[s].args[g][a] = "done"

\* the arguments of an entry are resolved before its target is invoked, and
\* none of them starts before the target of the entry before it has returned
ArgsBeforeTarget(s) ==
  /\ lazy.steps[s].target # "none" => \A g \in Groups : AllDone(s, g)
  /\ (s > 1 /\ \E g \in Groups : Scheduled(s, g) # {})
       => lazy.steps[s - 1].target = "returned"

\* C24 as stated: all deferred arguments of an entry, positional and keyword
\* alike, are resolved concurrently with one another before the target is
\* invoked, and no argument of a later entry starts before the target of the
\* earlier entry has returned
C24_AllArgsTogether ==
  \A s \in 1..Len(lazy.queue) :
    /\ (\E g \in Groups : Scheduled(s, g) # {})
         => \A g \in Groups : Scheduled(s, g) = 1..lazy.queue[s][g]
    /\ ArgsBeforeTarget(s)

\* C24 amended: the deferred positional arguments of an entry are resolved
\* concurrently with one another, its deferred keyword arguments concurrently
\* with one another once every positional one is resolved, all of them before
\* the target is invoked, and no argument of a later entry starts before the
\* target of the earlier entry has returned
C24_GroupsInTurn ==
  \A s \in 1..Len(lazy.queue) :
    /\ \A g \in Groups : Scheduled(s, g) \in {{}, 1..lazy.queue[s][g]}
    /\ Scheduled(s, "kw") # {} => AllDone(s, "pos")
    /\ ArgsBeforeTarget(s)

\* the two keyword arguments of the second entry run at the same time, after
\* its two positional arguments ran at the same time and finished
C24_Witness ==
  /\ Len(lazy.queue) = 2 /\ lazy.queue[2].pos = 2
  /\ lazy.steps[2].args["kw"][1] = "running" /\ lazy.steps[2].args["kw"][2] = "running"
  /\ AllDone(2, "pos")

\* ------------------------------------------------- composite `A >> B`
Leaves == {"A", "B"}
ShiftAction == "A>>B"              \* the MergedAction __rshift__ returns

ShiftVars == <<return_exceptions, protected_items, actions, default_action, call,
               plugVars, regs, lazy, parsed, resolved, ctx_ops, lifeVars, producer,
               dpc, action, action_data, counter, result, err, run_err, round, pulled,
               tasks, outer, ctxVars, initCalled, first_fail, early_fail, presp>>

\* Plugins.process_action with n plugins of class Plugin on its stack: an
\* empty stack calls `resolve(action)` (plugin.py:49-50), which the wrapper,
\* declared without parameters (actions.py:85-86), rejects with TypeError;
\* Plugin.process_action calls `process()` (plugin.py:14-15), which reaches
\* the wrapper when the plugin is the only one and the process_action of the
\* next plugin, short of its `action` argument, when there is another
HookReaches(n) == n = 1

\* `A(...) >> B(...)`: the two actions with their Lazy arguments, and the
\* composite, none of them called (actions.py:72-76, 98-107), in an
\* application with np plugins applied
NewShift(na, nb, np) ==
  [nargs |-> [x \in Leaves |-> IF x = "A" THEN na ELSE nb],
   plugged |-> np,
   bound |-> [x \in Leaves |-> 0],
   st |-> [x \in Leaves \cup {ShiftAction} |-> "none"],
   hooks |-> [x \in Leaves \cup {ShiftAction} |-> 0]]

\* mutant: the composite goes through the hook and the leaves do not
FiresHook_merged(x) == x = ShiftAction

\* `if not isinstance(self, MergedAction): executable =
\* partial(app.plugins.process_action, wrapper, self)` (actions.py:88-90)
FiresHook(x) == x # ShiftAction

\* Action.__call__ up to `await executable()`: an action with Lazy arguments
\* resolves them first; then the hook is called with the wrapper, or the
\* wrapper itself (actions.py:82-91)
RECURSIVE ActionCall(_, _), Executable(_, _), ActionWrapper(_, _)
ActionCall(m, x) ==
  IF x \in Leaves /\ m.nargs[x] > 0 THEN [m EXCEPT !.st[x] = "bind"] ELSE Executable(m, x)

Executable(m, x) ==
  IF FiresHook(x)
  THEN [m EXCEPT !.st[x] = "hooked", !.hooks[x] = @ + 1]
  ELSE ActionWrapper(m, x)

\* wrapper invokes the runner; the runner of the composite starts with
\* `await self()` (actions.py:85-86, 100-101)
ActionWrapper(m, x) ==
  LET n == [m EXCEPT !.st[x] = "body"] IN
    IF x = ShiftAction THEN ActionCall(n, "A") ELSE n

\* `await composite()`
ShiftCall ==
  /\ merged.st[ShiftAction] = "none"
  /\ merged' = ActionCall(merged, ShiftAction)
  /\ UNCHANGED ShiftVars

\* the hook stack is called with the wrapper (plugin.py:101-103): the call
\* reaches the wrapper or raises TypeError
Process(x) ==
  /\ merged.st[x] = "hooked"
  /\ merged' = IF HookReaches(merged.plugged) THEN ActionWrapper(merged, x)
               ELSE [merged EXCEPT !.st[x] = "raised", !.st[ShiftAction] = "raised"]
  /\ UNCHANGED ShiftVars

\* __get_bound_sig awaits the Lazy arguments one after another
\* (actions.py:109-112); one that raises ends the call
BindArg(x, ok) ==
  /\ merged.st[x] = "bind"
  /\ merged' =
       IF ~ok
       THEN [merged EXCEPT !.st[x] = "unbound", !.st[ShiftAction] = "raised"]
       ELSE IF merged.bound[x] + 1 = merged.nargs[x]
       THEN Executable([merged EXCEPT !.bound[x] = @ + 1], x)
       ELSE [merged EXCEPT !.bound[x] = @ + 1]
  /\ UNCHANGED ShiftVars

\* mutant: the runner goes on to `other` whatever became of `self`
Proceeds_always(ok) == TRUE

\* `await self()` returns before `await other()` is evaluated; an exception
\* leaves the runner (actions.py:100-102)
Proceeds(ok) == ok

\* the handler of a leaf returns or raises
LeafDone(x, ok) ==
  /\ x \in Leaves /\ merged.st[x] = "body"
  /\ LET m == [merged EXCEPT !.st[x] = IF ok THEN "returned" ELSE "raised"] IN
       merged' =
         IF x = "A" /\ Proceeds(ok) THEN ActionCall(m, "B")
         ELSE [m EXCEPT !.st[ShiftAction] = IF ok THEN "returned" ELSE "raised"]
  /\ UNCHANGED ShiftVars

InitShift ==
  /\ NotRun /\ default_action = NoName
  /\ regs = << >> /\ lazy = Unused /\ parsed = Unused /\ resolved = Unused
  /\ \E na \in 0..MaxArgs, nb \in 0..MaxArgs, np \in 0..MaxLoaders :
       merged = NewShift(na, nb, np)

NextShift ==
  \/ ShiftCall
  \/ \E x \in Leaves \cup {ShiftAction} : Process(x)
  \/ \E x \in Leaves, ok \in BOOLEAN : BindArg(x, ok)
  \/ \E x \in Leaves, ok \in BOOLEAN : LeafDone(x, ok)

SpecShift == InitShift /\ [][NextShift]_vars

\* C25: the composite runs A to completion before B is invoked: nothing of B,
\* not even the resolution of its arguments, starts before A has returned,
\* and if A raises B is never invoked
C25_FirstThenSecond ==
  /\ merged.st["B"] # "none" => merged.st["A"] = "returned"
  /\ merged.st["A"] \in {"raised", "unbound"}
       => merged.st["B"] = "none" /\ merged.st[ShiftAction] = "raised"

\* B, which has arguments to resolve, has run after A
C25_Witness ==
  /\ merged.st[ShiftAction] = "returned" /\ merged.st["B"] = "returned"
  /\ merged.nargs["B"] > 0 /\ merged.bound["B"] = merged.nargs["B"]

\* C26 as stated: A and B skip the plugin hook, which fires once for the
\* composite and not once per leaf
C26_HookOnceForComposite ==
  merged.st[ShiftAction] = "returned"
    => /\ merged.hooks[ShiftAction] = 1
       /\ \A x \in Leaves : merged.hooks[x] = 0

\* C26 amended: the composite skips the plugin hook, which fires once for
\* each leaf that is called with its arguments resolved, and never for the
\* composite
C26_HookOncePerLeaf ==
  /\ merged.hooks[ShiftAction] = 0
  /\ \A x \in Leaves :
       merged.hooks[x] =
         IF merged.st[x] \in {"hooked", "body", "returned", "raised"} THEN 1 ELSE 0

\* the composite has returned: both handlers ran, each behind the hook
C26_Witness ==
  /\ merged.st[ShiftAction] = "returned"
  /\ merged.hooks = [x \in Leaves \cup {ShiftAction} |-> IF x \in Leaves THEN 1 ELSE 0]

\* -------------------------------------------------- declared arguments
MaxArgValue == 2
ArgValues == { 2 * k : k \in 0..MaxArgValue }
\* the providers of examples/argument_processing.py; "none": not registered
Providers == {"none", "multiplier", "action_multiplier"}

ParseVars == <<return_exceptions, protected_items, actions, default_action, call,
               plugVars, regs, lazy, merged, resolved, ctx_ops, lifeVars, producer,
               dpc, action, action_data, counter, result, err, run_err, round, pulled,
               tasks, outer, ctxVars, initCalled, first_fail, early_fail, presp>>

\* bind_args followed by bound.apply_defaults() (application.py:85-92): the
\* bound value of a parameter, NoValue when the call gave none and the
\* signature declares no default
BindArgs(explicit, default) == IF explicit # NoValue THEN explicit ELSE default

\* the provider functions: `value * 2` raises on None, `(value or 2) / 2`
\* (examples/argument_processing.py:12-15, 25-28)
ProviderRaises(provider, value) == provider = "multiplier" /\ value = NoValue
Provider(provider, value) ==
  IF provider = "multiplier" THEN value * 2
  ELSE (IF value \in {NoValue, 0} THEN 2 ELSE value) \div 2

\* mutant: a provider is passed over when the call gave the argument
InArguments_unset(provider, explicit) == provider # "none" /\ explicit = NoValue

\* `for arg in self._arguments` (application.py:95): every parameter with a
\* registered provider, whatever the call gave
InArguments(provider, explicit) == provider # "none"

\* parse_args up to apply_defaults (application.py:91-92)
ParseBind ==
  /\ parsed.pc = "call"
  /\ parsed' = [parsed EXCEPT !.pc = "bound",
                              !.value = BindArgs(parsed.explicit, parsed.default)]
  /\ UNCHANGED ParseVars

\* the loop over the providers and the return (application.py:94-99,
\* get_argument 72-73): `bound.arguments.get(arg, None)` goes through the
\* provider and the result replaces the bound value
ParseArguments ==
  /\ parsed.pc = "bound"
  /\ parsed' =
       IF ~InArguments(parsed.provider, parsed.explicit)
       THEN [parsed EXCEPT !.pc = "done", !.effective = parsed.value]
       ELSE IF ProviderRaises(parsed.provider, parsed.value)
       THEN [parsed EXCEPT !.pc = "raised", !.applied = TRUE]
       ELSE [parsed EXCEPT !.pc = "done", !.applied = TRUE,
                           !.effective = Provider(parsed.provider, parsed.value)]
  /\ UNCHANGED ParseVars

\* a call with or without the argument, of a function that declares a default
\* for it or not, with or without a provider
InitArgs ==
  /\ NotRun /\ default_action = NoName
  /\ regs = << >> /\ lazy = Unused /\ merged = Unused /\ resolved = Unused
  /\ \E e \in ArgValues \cup {NoValue}, d \in ArgValues \cup {NoValue}, p \in Providers :
       parsed = [explicit |-> e, default |-> d, provider |-> p, pc |-> "call",
                 value |-> NoValue, effective |-> NoValue, applied |-> FALSE]

NextArgs ==
  \/ ParseBind
  \/ ParseArguments

SpecArgs == InitArgs /\ [][NextArgs]_vars

\* C27 as stated: an explicitly supplied argument is the effective value, the
\* provider is applied only when none was supplied, and the declared default
\* is used when there is neither
C27_ExplicitBeforeProvider ==
  parsed.pc \in {"done", "raised"} =>
    /\ parsed.applied <=> (parsed.provider # "none" /\ parsed.explicit = NoValue)
    /\ parsed.explicit # NoValue => parsed.pc = "done" /\ parsed.effective = parsed.explicit
    /\ (parsed.explicit = NoValue /\ parsed.provider = "none")
         => parsed.effective = parsed.default

\* C27 amended: a registered provider is always applied, to the explicitly
\* supplied argument if there is one and else to the declared default (None
\* without one), and what it returns is the effective value; without a
\* provider the explicit argument is used, and the declared default when
\* there is none
C27_ProviderAlwaysApplied ==
  parsed.pc \in {"done", "raised"} =>
    LET given == IF parsed.explicit # NoValue THEN parsed.explicit ELSE parsed.default IN
      /\ parsed.applied <=> parsed.provider # "none"
      /\ parsed.provider = "none" => parsed.pc = "done" /\ parsed.effective = given
      /\ parsed.provider = "multiplier" =>
           IF given = NoValue THEN parsed.pc = "raised"
           ELSE parsed.pc = "done" /\ parsed.effective = 2 * given
      /\ parsed.provider = "action_multiplier" =>
           /\ parsed.pc = "done"
           /\ 2 * parsed.effective = IF given \in {NoValue, 0} THEN 2 ELSE given

\* the call gave 4 and the provider doubled it
C27_Witness ==
  /\ parsed.pc = "done" /\ parsed.provider = "multiplier"
  /\ parsed.explicit = 4 /\ parsed.default = 2 /\ parsed.effective = 8

RoundFailed == { t \in BatchTasks(round) : Done(t) /\ tasks[t].out.raised }

ItemApplyExit(j, raised) ==
  /\ j \in 1..Len(scopes)
  /\ LET sc == scopes[j]
         n == Len(sc.loaders)
     IN /\ stacks' = [m \in methods |-> SubSeq(stacks[m], 1, Len(stacks[m]) - n)]
        /\ plugins' = IF plugins = << >> THEN plugins
                      ELSE SubSeq(plugins, 1, Len(plugins) - 1)
        /\ plug_exit' = [done |-> TRUE, n |-> n, raised |-> raised,
                         err |-> IF plugins = << >> THEN "IndexError"
                                 ELSE IF raised THEN "body" ELSE "none",
                         stacks0 |-> sc.stacks0, plugins0 |-> sc.plugins0]
  /\ scopes' = [k \in 1..(Len(scopes) - 1) |-> IF k < j THEN scopes[k] ELSE scopes[k + 1]]
  /\ plug_call' = NoCall
  /\ UNCHANGED runVars

NextItemPlug ==
  \/ \E loaders \in Loaders : ApplyEnter(loaders)
  \/ \E j \in 1..MaxDepth, raised \in BOOLEAN : ItemApplyExit(j, raised)
  \/ \E m \in methods : HookCall(m)

SpecItemPlug == InitPlug /\ [][NextItemPlug]_vars

\* what the open scopes pushed, earliest scope first
RECURSIVE Pushed(_)
Pushed(k) == IF k = 0 THEN << >> ELSE Pushed(k - 1) \o Reverse(scopes[k].loaders)

\* C29: whenever a scope exits, what leaves the hook stacks is what that scope
\* pushed and the plugins of the other scopes stay active, in whatever order
\* the scopes of concurrently running items exit: every hook stack holds the
\* entries of the scopes that are open, in the order they were opened
C29_ScopesKeepTheirEntries ==
  \A m \in methods : stacks[m] = Pushed(Len(scopes))

\* -------------------------------------- what an action body returned
MaxEntries == 2
\* the kinds of object _process_action tells apart (application.py:134-151)
ResultKinds == {"Action", "iterator", "asyncgen", "container", "dict", "value"}
EntryKinds == {"Action", "Lazy", "plain"}
Sequential == {"iterator", "asyncgen"}

ResultVars == <<return_exceptions, protected_items, actions, default_action, call,
                plugVars, regs, lazy, merged, parsed, ctx_ops, lifeVars, producer,
                dpc, action, action_data, counter, result, err, run_err, round, pulled,
                tasks, outer, ctxVars, initCalled, first_fail, early_fail, presp>>

\* entry k as the body returned it, and what awaiting it gives
Entry(k) == k
Awaited(k) == 0 - k

\* `isinstance(subaction, (Action, Lazy))` (application.py:140, 144, 149)
Deferred(kind) == kind \in {"Action", "Lazy"}

Entries == UNION { [1..n -> EntryKinds] : n \in 0..MaxEntries }

\* the value a body returned: `lazy` tells that it came wrapped in a Lazy
\* object, which _process_action awaits before it looks again
\* (application.py:136-137); np plugins are applied
Returned(kind, lazily, entries, np) ==
  [kind |-> kind, lazy |-> lazily, entries |-> entries, plugged |-> np, pc |-> "returned",
   k |-> 0, st |-> [e \in 1..MaxEntries |-> "none"], order |-> << >>,
   out |-> [kind |-> "none", vals |-> << >>]]

\* mutant: the entries of an iterator are handed to gather as well
Gathered_iterator(kind) == kind \in {"container", "iterator"}

\* `isinstance(action, Iterable) and not isinstance(action, dict)`, reached
\* when the object is no Action, Lazy, iterator or generator
\* (application.py:138-146)
Gathered(kind) == kind = "container"

\* the list under construction: entry e of the object, resolved or as it is
Collected(r) ==
  [e \in 1..Len(r.entries) |-> IF Deferred(r.entries[e]) THEN Awaited(e) ELSE Entry(e)]

\* the next entry of an iterator: a deferred one is awaited, another one is
\* taken as it is and the comprehension goes on (application.py:139-145)
RECURSIVE Advance(_)
Advance(r) ==
  IF r.k = Len(r.entries)
  THEN [r EXCEPT !.pc = "done", !.out = [kind |-> "list", vals |-> Collected(r)]]
  ELSE LET e == r.k + 1 IN
       IF Deferred(r.entries[e])
       THEN [r EXCEPT !.k = e, !.st[e] = "running"]
       ELSE Advance([r EXCEPT !.k = e, !.st[e] = "passed"])

\* _process_action looks at the object (application.py:133-153)
ProcessAction ==
  /\ resolved.pc = "returned"
  /\ resolved' =
       IF resolved.lazy THEN [resolved EXCEPT !.pc = "lazy"]
       ELSE IF resolved.kind = "Action" THEN [resolved EXCEPT !.pc = "action"]
       ELSE IF Gathered(resolved.kind)
       THEN [resolved EXCEPT !.pc = "gather",
                             !.st = [e \in 1..MaxEntries |->
                                       IF e > Len(resolved.entries) THEN "none"
                                       ELSE IF Deferred(resolved.entries[e]) THEN "pending"
                                       ELSE "passed"]]
       ELSE IF resolved.kind \in Sequential THEN Advance([resolved EXCEPT !.pc = "iterate"])
       ELSE [resolved EXCEPT !.pc = "done",
                             !.out = [kind |-> resolved.kind,
                                      vals |-> [e \in 1..Len(resolved.entries) |-> Entry(e)]]]
  /\ UNCHANGED ResultVars

\* `await action()` of the Lazy object or of the Action returns or raises
\* (application.py:135, 137); the call of an Action goes through the hook
CallDone(ok) ==
  /\ resolved.pc \in {"lazy", "action"}
  /\ (resolved.pc = "action" /\ ok) => HookReaches(resolved.plugged)
  /\ resolved' =
       IF ~ok THEN [resolved EXCEPT !.pc = "raised"]
       ELSE IF resolved.pc = "lazy" THEN [resolved EXCEPT !.pc = "returned", !.lazy = FALSE]
       ELSE [resolved EXCEPT !.pc = "done", !.out = [kind |-> "value", vals |-> << >>]]
  /\ UNCHANGED ResultVars

\* a coroutine gather was given starts to run
EntryStart(e) ==
  /\ resolved.pc \in {"gather", "raised"}
  /\ resolved.st[e] = "pending"
  /\ resolved' = [resolved EXCEPT !.st[e] = "running"]
  /\ UNCHANGED ResultVars

\* the call of a deferred entry returns or raises: the comprehension goes on
\* to the next entry, gather waits for the others
EntryDone(e, ok) ==
  /\ resolved.pc \in {"gather", "iterate", "raised"}
  /\ resolved.st[e] = "running"
  /\ (resolved.entries[e] = "Action" /\ ok) => HookReaches(resolved.plugged)
  /\ LET r == [resolved EXCEPT !.st[e] = IF ok THEN "done" ELSE "failed",
                               !.order = Append(@, e)] IN
       resolved' =
         IF resolved.pc = "raised" THEN r
         ELSE IF ~ok THEN [r EXCEPT !.pc = "raised"]
         ELSE IF resolved.pc = "iterate" THEN Advance(r)
         ELSE r
  /\ UNCHANGED ResultVars

\* gather returns the results in the order of its arguments
\* (application.py:147-151)
GatherReturn ==
  /\ resolved.pc = "gather"
  /\ \A e \in 1..Len(resolved.entries) : resolved.st[e] \in {"done", "passed"}
  /\ resolved' = [resolved EXCEPT !.pc = "done",
                                  !.out = [kind |-> "list", vals |-> Collected(resolved)]]
  /\ UNCHANGED ResultVars

InitResult ==
  /\ NotRun /\ default_action = NoName
  /\ regs = << >> /\ lazy = Unused /\ merged = Unused /\ parsed = Unused
  /\ \E kind \in ResultKinds, lazily \in BOOLEAN, entries \in Entries,
        np \in 0..MaxLoaders :
       /\ kind \in {"Action", "value"} => entries = << >>
       /\ resolved = Returned(kind, lazily, entries, np)

NextResult ==
  \/ ProcessAction
  \/ \E ok \in BOOLEAN : CallDone(ok)
  \/ \E e \in 1..MaxEntries : EntryStart(e)
  \/ \E e \in 1..MaxEntries, ok \in BOOLEAN : EntryDone(e, ok)
  \/ GatherReturn

SpecResult == InitResult /\ [][NextResult]_vars

\* C30: the Action and Lazy entries of an iterator or generator are resolved
\* one after another in order, those of another container that is no dict
\* concurrently with the results in the order of the entries; a dict comes
\* back unchanged; entries that are neither Action nor Lazy are passed through
C30_ResolvedByShape ==
  LET n == Len(resolved.entries) IN
  /\ resolved.kind \in Sequential =>
       \A e \in 1..n :
         resolved.st[e] # "none" =>
           \A d \in 1..(e - 1) : resolved.st[d] \in {"done", "passed"}
  /\ (resolved.pc = "gather" /\ resolved.kind = "container") =>
       \A e \in 1..n : resolved.st[e] # "none"
  /\ (resolved.pc = "done" /\ resolved.kind \in Sequential \cup {"container"}) =>
       /\ resolved.out.kind = "list" /\ Len(resolved.out.vals) = n
       /\ \A e \in 1..n :
            resolved.out.vals[e] =
              IF resolved.entries[e] \in {"Action", "Lazy"} THEN Awaited(e) ELSE Entry(e)
  /\ (resolved.pc = "done" /\ resolved.kind = "dict") =>
       /\ resolved.out.kind = "dict"
       /\ resolved.out.vals = [e \in 1..n |-> Entry(e)]
       /\ \A e \in 1..MaxEntries : resolved.st[e] = "none"

\* the two deferred entries of a container ran at the same time, the second
\* finished first, and the list has them in the order of the entries
C30_Witness ==
  /\ resolved.pc = "done" /\ resolved.kind = "container"
  /\ resolved.entries = <<"Action", "Lazy">> /\ resolved.order = <<2, 1>>
  /\ resolved.out.vals = <<Awaited(1), Awaited(2)>>

\* ------------------------------------------------------------------ C31
\* C31: in a run that created the context itself, the finalizers are called
\* after the context has been reset: get_context() yields None while they
\* execute, and no context is left once they have been called
C31_FinalizersAfterTeardown ==
  (life.fin_saw # "unset" /\ ctx_live # "caller") =>
    /\ life.fin_saw = "none"
    /\ ctx_live = "none"

\* two finalizers of a run that created its context are executing
C31_Witness ==
  /\ dpc = "finalize" /\ base = EmptyDict
  /\ Cardinality(life.invoked) = 2
  /\ life.fin_saw = "none" /\ ctx_live = "none"
====
